---- MODULE Spec2Model ----
\* Energy tracking and real-time suggestion logic of the study planner:
\*   src/src/utils/energy-management.ts            (pure analytics functions)
\*   src/src/components/RealTimeContextProvider.tsx (suggestion list of the provider)
\*   src/unnamed/part_000                           (types, EnergyTracker widget)
\*
\* Time is counted in whole minutes since the epoch (the code counts
\* milliseconds; every duration the code uses is a whole number of minutes).
\* Local time is taken to be UTC.  Numbers that the code computes by division
\* are kept as exact fractions [num, den]; den = 0 /\ num = 0 is NaN (0/0).
EXTENDS Integers, Sequences, FiniteSets, TLC

VARIABLES
  now,               \* the wall clock (Date.now()), in minutes
  energyProfile,     \* the UserEnergyProfile the application holds (EnergyTracker's prop)
  inputAfter,        \* the object passed to the last recordEnergyData call, as the call left it
  tasks,             \* the Task[] prop of the EnergyTracker
  renderTime,        \* the clock at the EnergyTracker's last render
  smartSuggestions,  \* generateSmartSuggestions' result at the EnergyTracker's last render
  history,           \* the EnergyDataPoint[] given to the analytics functions
                     \* (SpecRecord: every data point recorded so far, pruned or not)
  patterns,          \* analyzePatternsFromHistory(history), once applied
  timeSlots,         \* calculateOptimalStudyTimes(history), once applied
  recentFeedback,    \* the SessionFeedback[] given to calculateProductivityMetrics
  userPersona,       \* determineUserPersona(energyProfile), once applied
  productivityMetrics, \* calculateProductivityMetrics(energyProfile, recentFeedback), once applied
  suggestions,       \* the suggestions state of the RealTimeContextProvider
  pc,                \* "input" before a function is applied, "done" after; for the
                     \* provider, the handler that ran last
  isInSession,       \* state of the RealTimeContextProvider
  sessionDuration,   \* state of the RealTimeContextProvider, in timer ticks (minutes)
  sessionInterval,   \* TRUE while the session timer's setInterval is set
  ticks,             \* the session timer's ticks since the most recent startSession
  lastActivity,      \* state of the RealTimeContextProvider (a Date.now())
  idleTime,          \* state of the RealTimeContextProvider, in minutes
  isUserActive,      \* state of the RealTimeContextProvider
  userPresence       \* context.userPresence

vars == <<now, energyProfile, inputAfter, tasks, renderTime, smartSuggestions, history, patterns,
          timeSlots, recentFeedback, userPersona, productivityMetrics, suggestions, pc,
          isInSession, sessionDuration, sessionInterval, ticks, lastActivity, idleTime,
          isUserActive, userPresence>>

trackerVars == <<now, energyProfile, inputAfter, tasks, renderTime, smartSuggestions>>
analyzeVars == <<history, patterns, timeSlots>>
classifyVars == <<recentFeedback, userPersona, productivityMetrics>>
sessionVars == <<isInSession, sessionDuration, sessionInterval, ticks>>
activityVars == <<lastActivity, idleTime, isUserActive, userPresence>>

-----------------------------------------------------------------------------
\* Durations and program constants

\* 60 * 60 * 1000 ms, in minutes
OneHour == 60
OneDay == 24 * OneHour
\* 30 * 24 * 60 * 60 * 1000 ms
ThirtyDays == 30 * OneDay
ThirtyOneDays == 31 * OneDay

\* history.length < 7
MinDataPoints == 7
\* Math.min(data.count / 7, 1)
DailyConfidenceDivisor == 7
\* Math.min(data.count / 4, 1)
WeeklyConfidenceDivisor == 4
\* avgEnergy >= 3
MinAvgEnergy == 3
\* completionRate >= 0.7, in tenths
MinCompletionTenths == 7
\* recentActivity.length >= 4
MinRecentActivity == 4

EnergyLevels == {"very-low", "low", "medium", "high", "very-high"}

-----------------------------------------------------------------------------
\* Exact fractions, with IEEE's 0/0 = NaN

Rat(n, d) == [num |-> n, den |-> d]
NaN == Rat(0, 0)
IsNaN(r) == r.den = 0 /\ r.num = 0
\* a / b for integers a >= 0, b >= 0 (0/0 is NaN)
Divide(a, b) == Rat(a, b)
\* comparisons of fractions with positive denominators; any comparison with NaN is false
RatGE(a, b) == ~IsNaN(a) /\ ~IsNaN(b) /\ a.num * b.den >= b.num * a.den
RatGT(a, b) == ~IsNaN(a) /\ ~IsNaN(b) /\ a.num * b.den > b.num * a.den
RatEQ(a, b) == ~IsNaN(a) /\ ~IsNaN(b) /\ a.num * b.den = b.num * a.den
\* a + b, a - b and a * k; NaN if an argument is NaN
RatAdd(a, b) == IF IsNaN(a) \/ IsNaN(b) THEN NaN ELSE Rat(a.num * b.den + b.num * a.den, a.den * b.den)
RatSub(a, b) == IF IsNaN(a) \/ IsNaN(b) THEN NaN ELSE Rat(a.num * b.den - b.num * a.den, a.den * b.den)
RatScale(a, k) == IF IsNaN(a) THEN NaN ELSE Rat(a.num * k, a.den)
\* Math.min(a, b)
MathMin(a, b) == IF IsNaN(a) \/ IsNaN(b) THEN NaN ELSE IF RatGE(b, a) THEN a ELSE b
\* Math.max(a, b): NaN if either argument is NaN
MathMax(a, b) == IF IsNaN(a) \/ IsNaN(b) THEN NaN ELSE IF RatGE(a, b) THEN a ELSE b
\* Math.round(r): nearest integer, halves towards +infinity; NaN stays NaN
MathRound(r) == IF IsNaN(r) THEN NaN ELSE Rat((2 * r.num + r.den) \div (2 * r.den), 1)

-----------------------------------------------------------------------------
\* Helper functions of energy-management.ts

energyLevelToNumber(level) ==
  CASE level = "very-low" -> 1
    [] level = "low" -> 2
    [] level = "medium" -> 3
    [] level = "high" -> 4
    [] level = "very-high" -> 5

getDayName(dayIndex) ==
  <<"Sunday", "Monday", "Tuesday", "Wednesday", "Thursday", "Friday", "Saturday">>[dayIndex + 1]

\* new Date(timestamp).getHours()
getHours(t) == (t \div OneHour) % 24
\* new Date(timestamp).getDay(): day 0 of the epoch was a Thursday
getDay(t) == ((t \div OneDay) + 4) % 7

\* `${hour}:00` as the sequence of its character codes ("0" is 48, ":" is 58)
HourLabel(hour) ==
  (IF hour >= 10 THEN <<48 + (hour \div 10)>> ELSE <<>>) \o <<48 + (hour % 10), 58, 48, 48>>

\* An EnergyDataPoint; productivity and sessionCompleted may be "undefined"
DataPoint(t, level, context, productivity, completed) ==
  [timestamp |-> t, energyLevel |-> level, context |-> context,
   productivity |-> productivity, sessionCompleted |-> completed]

\* An optional value is <<>> (undefined) or <<v>>
Undefined == <<>>
Some(v) == <<v>>
\* JavaScript truthiness of an optional boolean (if (point.sessionCompleted))
TruthyBool(opt) == opt # Undefined /\ opt[1] = TRUE
\* JavaScript truthiness of an optional number (if (point.productivity))
TruthyNum(opt) == opt # Undefined /\ opt[1] # 0

-----------------------------------------------------------------------------
\* A Map<number, ...> is the sequence of its entries in insertion order

MapHas(map, key) == \E i \in 1..Len(map) : map[i].key = key
MapIndex(map, key) == CHOOSE i \in 1..Len(map) : map[i].key = key

\* Mutant of HourlyDataStep: the sample that creates a bucket is counted but
\* its energy is not added
HourlyDataStepFirstUncounted(map, point) ==
  LET hour == getHours(point.timestamp)
      energyValue == energyLevelToNumber(point.energyLevel)
      i == MapIndex(map, hour)
  IN IF MapHas(map, hour)
     THEN [map EXCEPT ![i].count = @ + 1, ![i].energySum = @ + energyValue]
     ELSE Append(map, [key |-> hour, total |-> 0, count |-> 1, energySum |-> 0])

\* One forEach step of the daily analysis: hour bucket created when absent,
\* then data.count++ and data.energySum += energyValue
HourlyDataStep(map, point) ==
  LET hour == getHours(point.timestamp)
      energyValue == energyLevelToNumber(point.energyLevel)
      m == IF MapHas(map, hour) THEN map
           ELSE Append(map, [key |-> hour, total |-> 0, count |-> 0, energySum |-> 0])
      i == MapIndex(m, hour)
  IN [m EXCEPT ![i].count = @ + 1, ![i].energySum = @ + energyValue]

RECURSIVE HourlyDataUpTo(_, _)
HourlyDataUpTo(hist, n) ==
  IF n = 0 THEN <<>> ELSE HourlyDataStep(HourlyDataUpTo(hist, n - 1), hist[n])

hourlyData(hist) == HourlyDataUpTo(hist, Len(hist))

\* One forEach step of the weekly analysis
WeeklyDataStep(map, point) ==
  LET dayOfWeek == getDay(point.timestamp)
      energyValue == energyLevelToNumber(point.energyLevel)
      m == IF MapHas(map, dayOfWeek) THEN map
           ELSE Append(map, [key |-> dayOfWeek, energySum |-> 0, count |-> 0])
      i == MapIndex(m, dayOfWeek)
  IN [m EXCEPT ![i].count = @ + 1, ![i].energySum = @ + energyValue]

RECURSIVE WeeklyDataUpTo(_, _)
WeeklyDataUpTo(hist, n) ==
  IF n = 0 THEN <<>> ELSE WeeklyDataStep(WeeklyDataUpTo(hist, n - 1), hist[n])

weeklyData(hist) == WeeklyDataUpTo(hist, Len(hist))

\* (map.get(max)?.[0] || 0): an entry object has no property 0, and neither
\* has undefined, so the value compared against is always 0
GetIndexZeroOrZero(map, max) == Rat(0, 1)

\* The reduce of generateDailyRecommendations / generateWeeklyRecommendations,
\* from initial value 0, over the entries in insertion order
RECURSIVE PeakReduce(_, _)
PeakReduce(map, n) ==
  IF n = 0 THEN 0
  ELSE LET max == PeakReduce(map, n - 1)
       IN IF RatGT(Divide(map[n].energySum, map[n].count), GetIndexZeroOrZero(map, max))
          THEN map[n].key ELSE max

\* The recommendation text is fixed but for the hour it names
generateDailyRecommendations(map) == <<[peakHour |-> PeakReduce(map, Len(map))]>>

\* The recommendation text is fixed but for the day it names
generateWeeklyRecommendations(map) == <<[bestDay |-> getDayName(PeakReduce(map, Len(map)))]>>

DailyPattern(hist) ==
  LET hd == hourlyData(hist)
  IN [type |-> "daily",
      pattern |-> [i \in 1..Len(hd) |->
                    [timeSlot |-> HourLabel(hd[i].key),
                     averageEnergy |-> Divide(hd[i].energySum, hd[i].count),
                     confidence |-> MathMin(Divide(hd[i].count, DailyConfidenceDivisor), Rat(1, 1))]],
      recommendations |-> generateDailyRecommendations(hd)]

WeeklyPattern(hist) ==
  LET wd == weeklyData(hist)
  IN [type |-> "weekly",
      pattern |-> [i \in 1..Len(wd) |->
                    [timeSlot |-> getDayName(wd[i].key),
                     averageEnergy |-> Divide(wd[i].energySum, wd[i].count),
                     confidence |-> MathMin(Divide(wd[i].count, WeeklyConfidenceDivisor), Rat(1, 1))]],
      recommendations |-> generateWeeklyRecommendations(wd)]

\* Mutant of analyzePatternsFromHistory: the length guard is missing
analyzePatternsUnguarded(hist) == <<DailyPattern(hist), WeeklyPattern(hist)>>

analyzePatternsFromHistory(hist) ==
  IF Len(hist) < MinDataPoints THEN <<>>
  ELSE <<DailyPattern(hist), WeeklyPattern(hist)>>

-----------------------------------------------------------------------------
\* calculateOptimalStudyTimes

\* One forEach step filling hourlyPerformance
HourlyPerformanceStep(map, point) ==
  LET hour == getHours(point.timestamp)
      energyValue == energyLevelToNumber(point.energyLevel)
      m == IF MapHas(map, hour) THEN map
           ELSE Append(map, [key |-> hour, energySum |-> 0, productivitySum |-> 0,
                             count |-> 0, completionRate |-> 0])
      i == MapIndex(m, hour)
  IN [m EXCEPT ![i].count = @ + 1,
               ![i].energySum = @ + energyValue,
               ![i].productivitySum =
                  IF TruthyNum(point.productivity) THEN @ + point.productivity[1] ELSE @,
               ![i].completionRate =
                  IF TruthyBool(point.sessionCompleted) THEN @ + 1 ELSE @]

RECURSIVE HourlyPerformanceUpTo(_, _)
HourlyPerformanceUpTo(hist, n) ==
  IF n = 0 THEN <<>>
  ELSE HourlyPerformanceStep(HourlyPerformanceUpTo(hist, n - 1), hist[n])

hourlyPerformance(hist) == HourlyPerformanceUpTo(hist, Len(hist))

\* Mutant of Score: Math.min(100, ...) is missing
ScoreUncapped(energy, productivity, we, wp) ==
  Rat(energy.num * we + productivity.num * wp, energy.den)

\* Math.min(100, energy * we + productivity * wp), energy and productivity
\* being fractions over the same count
Score(energy, productivity, we, wp) ==
  MathMin(Rat(100, 1), Rat(energy.num * we + productivity.num * wp, energy.den))

calculateSuitabilityScores(energy, productivity) ==
  [reading |-> Score(energy, productivity, 20, 5),
   writing |-> Score(energy, productivity, 25, 10),
   problemSolving |-> Score(energy, productivity, 30, 15),
   creative |-> Score(energy, productivity, 25, 12),
   review |-> Score(energy, productivity, 15, 8)]

\* Mutant of GoodPerformance: || in place of &&
GoodEnergyOrCompletion(avgEnergy, completionRate) ==
  \/ RatGE(avgEnergy, Rat(MinAvgEnergy, 1))
  \/ RatGE(completionRate, Rat(MinCompletionTenths, 10))

\* avgEnergy >= 3 && completionRate >= 0.7
GoodPerformance(avgEnergy, completionRate) ==
  /\ RatGE(avgEnergy, Rat(MinAvgEnergy, 1))
  /\ RatGE(completionRate, Rat(MinCompletionTenths, 10))

\* The TimeSlot pushed for one hour with good performance
SlotOf(data) ==
  LET avgEnergy == Divide(data.energySum, data.count)
      \* data.productivitySum / data.count || 0
      avgProductivity == Divide(data.productivitySum, data.count)
  IN [startHour |-> data.key,
      endHour |-> data.key + 1,
      energyLevel |-> avgEnergy,
      suitabilityScores |-> calculateSuitabilityScores(avgEnergy, avgProductivity)]

\* hourlyPerformance.forEach(...): the slots of the first n entries, in order
RECURSIVE SlotsUpTo(_, _)
SlotsUpTo(map, n) ==
  IF n = 0 THEN <<>>
  ELSE LET data == map[n]
           rest == SlotsUpTo(map, n - 1)
       IN IF GoodPerformance(Divide(data.energySum, data.count),
                             Divide(data.completionRate, data.count))
          THEN Append(rest, SlotOf(data)) ELSE rest

\* Array.prototype.sort((a, b) => b.energyLevel - a.energyLevel): a stable
\* sort, done here by inserting each slot after the slots that are not lower
InsertSlot(sorted, slot) ==
  LET before == {i \in 1..Len(sorted) : RatGE(sorted[i].energyLevel, slot.energyLevel)}
      k == Cardinality(before)
  IN SubSeq(sorted, 1, k) \o <<slot>> \o SubSeq(sorted, k + 1, Len(sorted))

RECURSIVE SortSlotsUpTo(_, _)
SortSlotsUpTo(slots, n) ==
  IF n = 0 THEN <<>> ELSE InsertSlot(SortSlotsUpTo(slots, n - 1), slots[n])

SortByEnergyDesc(slots) == SortSlotsUpTo(slots, Len(slots))

calculateOptimalStudyTimes(hist) ==
  IF Len(hist) < MinDataPoints THEN <<>>
  ELSE LET hp == hourlyPerformance(hist)
       IN SortByEnergyDesc(SlotsUpTo(hp, Len(hp)))

-----------------------------------------------------------------------------
\* initializeEnergyProfile and recordEnergyData

defaultAdaptivePreferences ==
  [adjustDifficultyByEnergy |-> TRUE,
   suggestBreaksBasedOnEnergy |-> TRUE,
   adaptSessionLengthByEnergy |-> TRUE,
   enableEnergyNotifications |-> TRUE,
   autoRescheduleOnLowEnergy |-> FALSE,
   preferredLowEnergyActivities |-> <<"reading", "review">>,
   preferredHighEnergyActivities |-> <<"problem-solving", "creative", "writing">>]

initializeEnergyProfile(clock) ==
  [currentEnergyLevel |-> "medium",
   energyHistory |-> <<>>,
   optimalStudyTimes |-> <<>>,
   energyPatterns |-> <<>>,
   lastUpdated |-> clock,
   adaptivePreferences |-> defaultAdaptivePreferences]

\* Mutant of WithinThirtyDays: a window of 31 days
WithinThirtyOneDays(point, clock) == point.timestamp > clock - ThirtyOneDays

\* Mutant of WithinThirtyDays: >= in place of >
WithinThirtyDaysInclusive(point, clock) == point.timestamp >= clock - ThirtyDays

\* point => new Date(point.timestamp) > thirtyDaysAgo,
\* thirtyDaysAgo = new Date(Date.now() - 30 * 24 * 60 * 60 * 1000)
WithinThirtyDays(point, clock) == point.timestamp > clock - ThirtyDays

\* The arrays recordEnergyData works on: the caller's energyHistory (input)
\* and the two arrays the call allocates (updated, filtered)
ArraysAtEntry(currentProfile) ==
  [input |-> currentProfile.energyHistory, updated |-> <<>>, filtered |-> <<>>]

\* Mutant of SpreadAndAppend: currentProfile.energyHistory.push(dataPoint)
PushInPlace(arrays, dataPoint) ==
  [arrays EXCEPT !.input = Append(arrays.input, dataPoint),
                 !.updated = Append(arrays.input, dataPoint)]

\* updatedHistory = [...currentProfile.energyHistory, dataPoint]: the spread
\* copies into a new array, the input array is not written
SpreadAndAppend(arrays, dataPoint) ==
  [arrays EXCEPT !.updated = Append(arrays.input, dataPoint)]

\* filteredHistory = updatedHistory.filter(...): filter returns a new array
FilterRecent(arrays, clock) ==
  [arrays EXCEPT !.filtered =
     SelectSeq(arrays.updated, LAMBDA point : WithinThirtyDays(point, clock))]

ArraysAtReturn(currentProfile, dataPoint, clock) ==
  FilterRecent(SpreadAndAppend(ArraysAtEntry(currentProfile), dataPoint), clock)

\* The object passed as currentProfile, as the call leaves it: its fields are
\* only read ({...currentProfile} copies them into the new result object)
currentProfileAfterCall(currentProfile, energyLevel, context, productivity, sessionCompleted, clock) ==
  LET dataPoint == DataPoint(clock, energyLevel, context, productivity, sessionCompleted)
  IN [currentProfile EXCEPT
        !.energyHistory = ArraysAtReturn(currentProfile, dataPoint, clock).input]

\* Mutant of recordEnergyData: the derived fields are computed from
\* updatedHistory, before the pruning
recordEnergyDataUnprunedDerived(currentProfile, energyLevel, context, productivity, sessionCompleted, clock) ==
  LET dataPoint == DataPoint(clock, energyLevel, context, productivity, sessionCompleted)
      arrays == ArraysAtReturn(currentProfile, dataPoint, clock)
  IN [currentProfile EXCEPT
        !.currentEnergyLevel = energyLevel,
        !.energyHistory = arrays.filtered,
        !.lastUpdated = clock,
        !.energyPatterns = analyzePatternsFromHistory(arrays.updated),
        !.optimalStudyTimes = calculateOptimalStudyTimes(arrays.updated)]

\* The value recordEnergyData returns when called at time clock
recordEnergyData(currentProfile, energyLevel, context, productivity, sessionCompleted, clock) ==
  LET dataPoint == DataPoint(clock, energyLevel, context, productivity, sessionCompleted)
      filtered == ArraysAtReturn(currentProfile, dataPoint, clock).filtered
  IN [currentProfile EXCEPT
        !.currentEnergyLevel = energyLevel,
        !.energyHistory = filtered,
        !.lastUpdated = clock,
        !.energyPatterns = analyzePatternsFromHistory(filtered),
        !.optimalStudyTimes = calculateOptimalStudyTimes(filtered)]

-----------------------------------------------------------------------------
\* generateSmartSuggestions

Suggestion(prefix, clock, type, priority, category) ==
  [id |-> <<prefix, clock>>, type |-> type, priority |-> priority, category |-> category]

\* task.status !== 'completed' && (problem-solving || creative)
IsDifficultTask(task) ==
  task.status # "completed" /\ task.taskType \in {"problem-solving", "creative"}

\* Mutant of IsRecent: >= in place of >
IsRecentInclusive(point, clock) == point.timestamp >= clock - OneHour

\* pointTime > hourAgo, hourAgo = new Date(Date.now() - 60 * 60 * 1000)
IsRecent(point, clock) == point.timestamp > clock - OneHour

recentActivity(profile, clock) ==
  SelectSeq(profile.energyHistory, LAMBDA point : IsRecent(point, clock))

\* Mutant of BreakCondition: a very-low sample suppresses the break too
BreakConditionNoLowOrVeryLow(recent) ==
  /\ Len(recent) >= MinRecentActivity
  /\ ~\E i \in 1..Len(recent) : recent[i].energyLevel \in {"low", "very-low"}

\* recentActivity.length >= 4 && !recentActivity.some(point => point.energyLevel === 'low')
BreakCondition(recent) ==
  /\ Len(recent) >= MinRecentActivity
  /\ ~\E i \in 1..Len(recent) : recent[i].energyLevel = "low"

\* The four rules, each giving the suggestions it pushes; clock is Date.now()
\* during the call
LowEnergyRule(profile, clock) ==
  IF profile.currentEnergyLevel \in {"very-low", "low"}
  THEN <<Suggestion("energy-low", clock, "energy-based", "high", "energy")>>
  ELSE <<>>

HighEnergyRule(profile, taskList, clock) ==
  IF /\ profile.currentEnergyLevel \in {"high", "very-high"}
     /\ \E i \in 1..Len(taskList) : IsDifficultTask(taskList[i])
  THEN <<Suggestion("energy-high", clock, "energy-based", "medium", "scheduling")>>
  ELSE <<>>

OptimalTimeRule(profile, currentTime, clock) ==
  LET currentHour == getHours(currentTime)
  IN IF \E i \in 1..Len(profile.optimalStudyTimes) :
          /\ profile.optimalStudyTimes[i].startHour <= currentHour
          /\ profile.optimalStudyTimes[i].endHour > currentHour
     THEN <<Suggestion("optimal-time", clock, "pattern-based", "medium", "scheduling")>>
     ELSE <<>>

BreakRule(profile, clock) ==
  IF BreakCondition(recentActivity(profile, clock))
  THEN <<Suggestion("break-suggestion", clock, "context-based", "medium", "break")>>
  ELSE <<>>

\* Mutant of generateSmartSuggestions: the function returns after the first
\* rule that applies
generateSmartSuggestionsEarlyExit(profile, currentTime, taskList, clock) ==
  IF LowEnergyRule(profile, clock) # <<>> THEN LowEnergyRule(profile, clock)
  ELSE IF HighEnergyRule(profile, taskList, clock) # <<>>
       THEN HighEnergyRule(profile, taskList, clock)
  ELSE IF OptimalTimeRule(profile, currentTime, clock) # <<>>
       THEN OptimalTimeRule(profile, currentTime, clock)
  ELSE BreakRule(profile, clock)

\* userExperience is given by its energyProfile and its currentContext.currentTime;
\* clock is Date.now() during the call
generateSmartSuggestions(profile, currentTime, taskList, clock) ==
  LowEnergyRule(profile, clock)
    \o HighEnergyRule(profile, taskList, clock)
    \o OptimalTimeRule(profile, currentTime, clock)
    \o BreakRule(profile, clock)

-----------------------------------------------------------------------------
\* determineUserPersona

\* JavaScript's a <= b on strings: lexicographic on the character codes
RECURSIVE StrLE(_, _)
StrLE(a, b) ==
  IF a = <<>> THEN TRUE
  ELSE IF b = <<>> THEN FALSE
  ELSE IF a[1] # b[1] THEN a[1] < b[1]
  ELSE StrLE(Tail(a), Tail(b))

\* '06:00', '10:00', '18:00', '22:00'
Label0600 == <<48, 54, 58, 48, 48>>
Label1000 == <<49, 48, 58, 48, 48>>
Label1800 == <<49, 56, 58, 48, 48>>
Label2200 == <<50, 50, 58, 48, 48>>

\* pattern.filter(p => p.timeSlot >= lo && p.timeSlot <= hi)
\*        .reduce((sum, p) => sum + p.averageEnergy, 0) / 4
RECURSIVE SumInRange(_, _, _, _)
SumInRange(pattern, n, lo, hi) ==
  IF n = 0 THEN Rat(0, 1)
  ELSE LET rest == SumInRange(pattern, n - 1, lo, hi)
       IN IF StrLE(lo, pattern[n].timeSlot) /\ StrLE(pattern[n].timeSlot, hi)
          THEN RatAdd(rest, pattern[n].averageEnergy) ELSE rest

RangeEnergy(pattern, lo, hi) ==
  LET sum == SumInRange(pattern, Len(pattern), lo, hi)
  IN Rat(sum.num, sum.den * 4)

morningEnergy(dailyPattern) == RangeEnergy(dailyPattern.pattern, Label0600, Label1000)
eveningEnergy(dailyPattern) == RangeEnergy(dailyPattern.pattern, Label1800, Label2200)

\* energyPatterns.find(p => p.type === 'daily') is not undefined
HasDailyPattern(energyPatterns) ==
  \E i \in 1..Len(energyPatterns) : energyPatterns[i].type = "daily"

FindDailyPattern(energyPatterns) ==
  energyPatterns[CHOOSE i \in 1..Len(energyPatterns) :
                   /\ energyPatterns[i].type = "daily"
                   /\ \A j \in 1..(i - 1) : energyPatterns[j].type # "daily"]

\* Mutant of InconsistentPersona: the confidence of the flexible persona
InconsistentPersonaConfident ==
  [type |-> "inconsistent",
   recommendations |-> <<"Track energy levels for a few more days">>,
   confidenceLevel |-> Rat(7, 10)]

\* The persona returned when there is no daily pattern
InconsistentPersona ==
  [type |-> "inconsistent",
   recommendations |-> <<"Track energy levels for a few more days">>,
   confidenceLevel |-> Rat(1, 10)]

\* Mutant of determineUserPersona: >= in place of > in both comparisons
determineUserPersonaInclusive(profile) ==
  IF ~HasDailyPattern(profile.energyPatterns) THEN InconsistentPersona
  ELSE LET dailyPattern == FindDailyPattern(profile.energyPatterns)
           morning == morningEnergy(dailyPattern)
           evening == eveningEnergy(dailyPattern)
       IN IF RatGE(morning, RatAdd(evening, Rat(1, 2)))
          THEN [type |-> "early-bird",
                recommendations |-> <<"Front-load your day", "Plan easier tasks for afternoons">>,
                confidenceLevel |-> Rat(8, 10)]
          ELSE IF RatGE(evening, RatAdd(morning, Rat(1, 2)))
          THEN [type |-> "night-owl",
                recommendations |-> <<"Save challenging work for evening", "Use mornings for routine tasks">>,
                confidenceLevel |-> Rat(8, 10)]
          ELSE [type |-> "flexible",
                recommendations |-> <<"Focus on task prioritization", "Optimize based on other factors">>,
                confidenceLevel |-> Rat(7, 10)]

determineUserPersona(profile) ==
  IF ~HasDailyPattern(profile.energyPatterns) THEN InconsistentPersona
  ELSE LET dailyPattern == FindDailyPattern(profile.energyPatterns)
           morning == morningEnergy(dailyPattern)
           evening == eveningEnergy(dailyPattern)
       IN IF RatGT(morning, RatAdd(evening, Rat(1, 2)))
          THEN [type |-> "early-bird",
                recommendations |-> <<"Front-load your day", "Plan easier tasks for afternoons">>,
                confidenceLevel |-> Rat(8, 10)]
          ELSE IF RatGT(evening, RatAdd(morning, Rat(1, 2)))
          THEN [type |-> "night-owl",
                recommendations |-> <<"Save challenging work for evening", "Use mornings for routine tasks">>,
                confidenceLevel |-> Rat(8, 10)]
          ELSE [type |-> "flexible",
                recommendations |-> <<"Focus on task prioritization", "Optimize based on other factors">>,
                confidenceLevel |-> Rat(7, 10)]

-----------------------------------------------------------------------------
\* calculateProductivityMetrics

\* energyProfile.energyHistory.slice(-14)
RecentWindow == 14
\* Mutant of LastN: the slice is missing
WholeArray(seq, n) == seq

LastN(seq, n) == IF Len(seq) <= n THEN seq ELSE SubSeq(seq, Len(seq) - n + 1, Len(seq))

\* seq.reduce((sum, x) => sum + x, 0) over the first n numbers
RECURSIVE SumUpTo(_, _)
SumUpTo(seq, n) == IF n = 0 THEN 0 ELSE SumUpTo(seq, n - 1) + seq[n]

Sum(seq) == SumUpTo(seq, Len(seq))

\* feedback is recentFeedback: recentFeedback.reduce((sum, f) => sum + f.focusRating * 20, 0) / length, or 50
FocusScore(feedback) ==
  IF Len(feedback) > 0
  THEN Divide(Sum([i \in 1..Len(feedback) |-> feedback[i].focusRating * 20]),
              Len(feedback))
  ELSE Rat(50, 1)

\* recentData.filter(d => d.sessionCompleted).length
CompletedSessions(recentData) ==
  Cardinality({i \in 1..Len(recentData) : TruthyBool(recentData[i].sessionCompleted)})

\* recentData.length > 0 ? (completedSessions / recentData.length) * 100 : 0
CompletionRate(recentData) ==
  IF Len(recentData) > 0
  THEN RatScale(Divide(CompletedSessions(recentData), Len(recentData)), 100)
  ELSE Rat(0, 1)

\* avgEnergy = sum / length; variance = sum of (e - avgEnergy)^2 / length.
\* With n values of sum S, (e - S/n)^2 = (n*e - S)^2 / n^2.  Over an empty
\* window both reductions are 0 and both divisions are 0/0 = NaN
Variance(recentData) ==
  LET n == Len(recentData)
      energyValues == [i \in 1..n |-> energyLevelToNumber(recentData[i].energyLevel)]
      S == Sum(energyValues)
      avgEnergy == Divide(S, n)
      squares == Sum([i \in 1..n |-> (n * energyValues[i] - S) * (n * energyValues[i] - S)])
  IN IF IsNaN(avgEnergy) THEN Divide(0, n) ELSE Divide(squares, n * n * n)

\* Math.max(0, 100 - variance * 20)
ConsistencyScore(recentData) ==
  MathMax(Rat(0, 1), RatSub(Rat(100, 1), RatScale(Variance(recentData), 20)))

calculateEnergyUtilization(profile, recentData) ==
  LET highEnergyData == {i \in 1..Len(recentData) :
                           recentData[i].energyLevel \in {"high", "very-high"}}
      utilizedHighEnergy == {i \in highEnergyData : TruthyBool(recentData[i].sessionCompleted)}
  IN IF Cardinality(highEnergyData) > 0
     THEN RatScale(Divide(Cardinality(utilizedHighEnergy), Cardinality(highEnergyData)), 100)
     ELSE Rat(50, 1)

calculateProductivityMetrics(profile, feedback) ==
  LET recentData == LastN(profile.energyHistory, RecentWindow)
  IN [focusScore |-> MathRound(FocusScore(feedback)),
      completionRate |-> MathRound(CompletionRate(recentData)),
      consistencyScore |-> MathRound(ConsistencyScore(recentData)),
      energyUtilization |-> MathRound(calculateEnergyUtilization(profile, recentData)),
      adaptationSuccess |-> Rat(75, 1),
      streakQuality |-> Rat(80, 1),
      timeOptimization |-> Rat(70, 1)]

-----------------------------------------------------------------------------
\* The EnergyTracker widget over the energy profile: the clock advances, the
\* user reports an energy level (handleEnergyUpdate -> recordEnergyData), the
\* widget renders (generateSmartSuggestions)

\* Bounds of the model
MaxHistory == 4
MaxMinutes == 1

StartTime == 10 * OneDay + 9 * OneHour
\* The instants at which something happens: the first minutes, and 30 and 31
\* days after the start
ClockInstants ==
  {StartTime + i : i \in 0..MaxMinutes} \cup {StartTime + ThirtyDays, StartTime + ThirtyOneDays}

\* The levels the user reports in this model (three of the five buttons)
InputLevels == {"very-low", "low", "high"}

TaskLists ==
  {<<>>,
   <<[status |-> "pending", taskType |-> "problem-solving"]>>,
   <<[status |-> "completed", taskType |-> "creative"]>>}

\* contextData of the widget (its initial value) with the time of day and weekday
TrackerContext(clock) ==
  Some([timeOfDay |-> <<getHours(clock), clock % OneHour>>,
        dayOfWeek |-> getDay(clock),
        sleepQuality |-> "good", caffeine |-> FALSE, exercise |-> FALSE,
        meals |-> "light", stress |-> "low"])

\* const suggestions = generateSmartSuggestions(userExperience, tasks, studyPlans)
\* with currentContext = getCurrentContext(), at a render at time clock
RenderSuggestions(profile, taskList, clock) ==
  generateSmartSuggestions(profile, clock, taskList, clock)

\* The variables of the function harnesses and of the provider, at rest
HarnessIdle ==
  /\ history = <<>>
  /\ patterns = <<>>
  /\ timeSlots = <<>>
  /\ recentFeedback = <<>>
  /\ userPersona = <<>>
  /\ productivityMetrics = <<>>
  /\ pc = "input"

\* The provider's state at mount: useState(false), useState(0),
\* useState(Date.now()), useState(true), getCurrentContext()
SessionIdle ==
  /\ isInSession = FALSE
  /\ sessionDuration = 0
  /\ sessionInterval = FALSE
  /\ ticks = 0
  /\ lastActivity = now
  /\ idleTime = 0
  /\ isUserActive = TRUE
  /\ userPresence = "active"

ProviderIdle == suggestions = <<>> /\ SessionIdle

Init ==
  /\ now = StartTime
  /\ energyProfile = initializeEnergyProfile(StartTime)
  /\ inputAfter = initializeEnergyProfile(StartTime)
  /\ tasks \in TaskLists
  /\ renderTime = StartTime
  /\ smartSuggestions = RenderSuggestions(energyProfile, tasks, now)
  /\ HarnessIdle
  /\ ProviderIdle

\* Time passes
AdvanceClock(t) ==
  /\ t > now
  /\ now' = t
  /\ UNCHANGED <<energyProfile, inputAfter, tasks, renderTime, smartSuggestions>>
  /\ UNCHANGED <<analyzeVars, classifyVars, suggestions, pc>>
  /\ UNCHANGED <<sessionVars, activityVars>>

\* handleEnergyUpdate(level): recordEnergyData(energyProfile, level, context,
\* undefined, false), onEnergyUpdate(updatedProfile), and the render that the
\* new prop causes
HandleEnergyUpdate(level) ==
  /\ Len(energyProfile.energyHistory) < MaxHistory
  /\ energyProfile' = recordEnergyData(energyProfile, level, TrackerContext(now),
                                       Undefined, Some(FALSE), now)
  /\ inputAfter' = currentProfileAfterCall(energyProfile, level, TrackerContext(now),
                                           Undefined, Some(FALSE), now)
  /\ renderTime' = now
  /\ smartSuggestions' = RenderSuggestions(energyProfile', tasks, now)
  /\ UNCHANGED <<now, tasks>>
  /\ UNCHANGED <<analyzeVars, classifyVars, suggestions, pc>>
  /\ UNCHANGED <<sessionVars, activityVars>>

\* The widget renders again (a parent render, a toggle of its own state)
Render ==
  /\ renderTime' = now
  /\ smartSuggestions' = RenderSuggestions(energyProfile, tasks, now)
  /\ UNCHANGED <<now, energyProfile, inputAfter, tasks>>
  /\ UNCHANGED <<analyzeVars, classifyVars, suggestions, pc>>
  /\ UNCHANGED <<sessionVars, activityVars>>

Next ==
  \/ \E t \in ClockInstants : AdvanceClock(t)
  \/ \E level \in InputLevels : HandleEnergyUpdate(level)
  \/ Render

Spec == Init /\ [][Next]_vars

-----------------------------------------------------------------------------
\* The analytics functions applied to a given history (specification
\* SpecAnalyze): analyzePatternsFromHistory and calculateOptimalStudyTimes

\* Bounds of the model
MaxLen == 7
TenthsLen == 10

\* The tracker's variables, at rest
TrackerIdle ==
  /\ now = StartTime
  /\ energyProfile = initializeEnergyProfile(StartTime)
  /\ inputAfter = initializeEnergyProfile(StartTime)
  /\ tasks = <<>>
  /\ renderTime = StartTime
  /\ smartSuggestions = <<>>

\* Four kinds of sample: three at hour 9 (of different days) that differ in
\* level and completion, one at hour 14
SampleKinds ==
  {DataPoint(StartTime, "high", Undefined, Some(8), Some(TRUE)),
   DataPoint(StartTime + OneDay + 30, "very-low", Undefined, Undefined, Some(TRUE)),
   DataPoint(StartTime + 2 * OneDay + 59, "high", Undefined, Some(3), Undefined),
   DataPoint(StartTime + 5 * OneHour, "medium", Undefined, Undefined, Some(TRUE))}

\* Every history of up to MaxLen samples of these kinds
MixedHistories == UNION {[1..n -> SampleKinds] : n \in 0..MaxLen}

\* Histories of TenthsLen samples at hour 9, high, completed or not: with 10
\* samples the completion rate takes the values 0.6, 0.7, 0.8
TenthsHistories ==
  [1..TenthsLen -> {DataPoint(StartTime, "high", Undefined, Some(8), Some(TRUE)),
                    DataPoint(StartTime + 1, "high", Undefined, Undefined, Some(FALSE))}]

\* n samples on successive days, all in hour H, of level L, completed
UniformHistory(n, H, L) ==
  [i \in 1..n |-> DataPoint(i * OneDay + H * OneHour + i, L, Undefined, Undefined, Some(TRUE))]

UniformHistories ==
  {UniformHistory(n, H, L) : n \in MinDataPoints..(MaxLen + 1), H \in 0..23, L \in EnergyLevels}

AnalyzeInputs == MixedHistories \cup TenthsHistories \cup UniformHistories

InitAnalyze ==
  /\ TrackerIdle
  /\ ProviderIdle
  /\ history \in AnalyzeInputs
  /\ patterns = <<>>
  /\ timeSlots = <<>>
  /\ recentFeedback = <<>>
  /\ userPersona = <<>>
  /\ productivityMetrics = <<>>
  /\ pc = "input"

\* The two calls recordEnergyData makes on a history
Analyze ==
  /\ pc = "input"
  /\ patterns' = analyzePatternsFromHistory(history)
  /\ timeSlots' = calculateOptimalStudyTimes(history)
  /\ pc' = "done"
  /\ UNCHANGED <<trackerVars, history, classifyVars, suggestions>>
  /\ UNCHANGED <<sessionVars, activityVars>>

NextAnalyze == Analyze

SpecAnalyze == InitAnalyze /\ [][NextAnalyze]_vars

\* The samples of the history that fall in hour h
SamplesAtHour(h) == {i \in 1..Len(history) : getHours(history[i].timestamp) = h}
EnergyAtHour(h) ==
  Sum([i \in 1..Len(history) |->
         IF i \in SamplesAtHour(h) THEN energyLevelToNumber(history[i].energyLevel) ELSE 0])
CompletedAtHour(h) == {i \in SamplesAtHour(h) : history[i].sessionCompleted = Some(TRUE)}

\* C2: for every history with fewer than 7 samples, analyzePatternsFromHistory
\* and calculateOptimalStudyTimes both return an empty list (and neither
\* raises an error).
C2_ShortHistoryGivesEmptyLists ==
  (pc = "done" /\ Len(history) < 7) => (patterns = <<>> /\ timeSlots = <<>>)

\* Witness of C2: both functions were applied to a history of 6 samples
C2_Witness == pc = "done" /\ Len(history) = 6 /\ patterns = <<>> /\ timeSlots = <<>>

\* C3: every TimeSlot calculateOptimalStudyTimes returns is for an hour whose
\* samples have average energy >= 3 and of which at least 0.7 are completed;
\* an hour failing either condition has no slot.
C3_SlotsOnlyForGoodHours ==
  pc = "done" =>
    \A k \in 1..Len(timeSlots) :
      LET h == timeSlots[k].startHour
          n == Cardinality(SamplesAtHour(h))
      IN /\ n > 0
         /\ EnergyAtHour(h) >= 3 * n
         /\ 10 * Cardinality(CompletedAtHour(h)) >= 7 * n

\* Witness of C3: 10 samples at hour 9 of which exactly 7 are completed (a
\* completion rate of exactly 0.7), and the slot for hour 9
C3_Witness ==
  /\ pc = "done"
  /\ Cardinality(SamplesAtHour(9)) = 10
  /\ Cardinality(CompletedAtHour(9)) = 7
  /\ Len(timeSlots) = 1
  /\ timeSlots[1].startHour = 9

\* A history of at least 7 samples, all in one hour, of one level, completed
IsUniform ==
  /\ Len(history) >= 7
  /\ \A i \in 1..Len(history) :
       /\ getHours(history[i].timestamp) = getHours(history[1].timestamp)
       /\ history[i].energyLevel = history[1].energyLevel
       /\ history[i].sessionCompleted = Some(TRUE)

\* C6: for a history of n >= 7 samples all in hour H, of level L and
\* completed, the daily pattern has exactly one entry, for hour H, with
\* averageEnergy the value of L and confidence 1; and when that value is >= 3
\* calculateOptimalStudyTimes returns exactly one TimeSlot, with startHour H,
\* endHour H + 1 and energyLevel the value of L.
C6_UniformHistory ==
  (pc = "done" /\ IsUniform) =>
    LET H == getHours(history[1].timestamp)
        value == energyLevelToNumber(history[1].energyLevel)
    IN /\ Len(patterns) >= 1
       /\ patterns[1].type = "daily"
       /\ Len(patterns[1].pattern) = 1
       /\ patterns[1].pattern[1].timeSlot = HourLabel(H)
       /\ RatEQ(patterns[1].pattern[1].averageEnergy, Rat(value, 1))
       /\ RatEQ(patterns[1].pattern[1].confidence, Rat(1, 1))
       /\ value >= 3 =>
            /\ Len(timeSlots) = 1
            /\ timeSlots[1].startHour = H
            /\ timeSlots[1].endHour = H + 1
            /\ RatEQ(timeSlots[1].energyLevel, Rat(value, 1))

\* Witness of C6: 7 samples at hour 9 of level high, and the slot for hour 9
C6_Witness ==
  /\ pc = "done"
  /\ IsUniform
  /\ Len(history) = 7
  /\ getHours(history[1].timestamp) = 9
  /\ history[1].energyLevel = "high"
  /\ Len(timeSlots) = 1
  /\ timeSlots[1].startHour = 9

\* The hours and weekdays present in the history, the first sample of each
\* and their average energies
HoursPresent == {getHours(history[i].timestamp) : i \in 1..Len(history)}
DaysPresent == {getDay(history[i].timestamp) : i \in 1..Len(history)}
SamplesAtDay(d) == {i \in 1..Len(history) : getDay(history[i].timestamp) = d}
EnergyAtDay(d) ==
  Sum([i \in 1..Len(history) |->
         IF i \in SamplesAtDay(d) THEN energyLevelToNumber(history[i].energyLevel) ELSE 0])
AverageAtHour(h) == Rat(EnergyAtHour(h), Cardinality(SamplesAtHour(h)))
AverageAtDay(d) == Rat(EnergyAtDay(d), Cardinality(SamplesAtDay(d)))
FirstOf(samples) == CHOOSE i \in samples : \A j \in samples : i <= j

\* h is the first seen of the hours of maximal average energy
IsPeakHour(h) ==
  /\ h \in HoursPresent
  /\ \A g \in HoursPresent :
       /\ RatGE(AverageAtHour(h), AverageAtHour(g))
       /\ RatEQ(AverageAtHour(h), AverageAtHour(g))
            => FirstOf(SamplesAtHour(h)) <= FirstOf(SamplesAtHour(g))

\* d is the first seen of the weekdays of maximal average energy
IsBestDay(d) ==
  /\ d \in DaysPresent
  /\ \A e \in DaysPresent :
       /\ RatGE(AverageAtDay(d), AverageAtDay(e))
       /\ RatEQ(AverageAtDay(d), AverageAtDay(e))
            => FirstOf(SamplesAtDay(d)) <= FirstOf(SamplesAtDay(e))

\* C18: for every history of at least 7 samples, the hour named in the daily
\* pattern's recommendation is an hour of maximal average energy among the
\* hours present, and the day named in the weekly pattern's recommendation is
\* a weekday of maximal average energy among the weekdays present (ties
\* going to the first seen).
C18_RecommendationsNameThePeak ==
  (pc = "done" /\ Len(history) >= MinDataPoints) =>
    /\ IsPeakHour(patterns[1].recommendations[1].peakHour)
    /\ \E d \in DaysPresent :
         /\ IsBestDay(d)
         /\ patterns[2].recommendations[1].bestDay = getDayName(d)

\* The five scores of a slot
ScoresOf(slot) ==
  {slot.suitabilityScores.reading, slot.suitabilityScores.writing,
   slot.suitabilityScores.problemSolving, slot.suitabilityScores.creative,
   slot.suitabilityScores.review}

\* Every score of every emitted slot lies in 0..100
ScoresInRange ==
  \A i \in 1..Len(timeSlots) : \A score \in ScoresOf(timeSlots[i]) :
     RatGE(score, Rat(0, 1)) /\ RatGE(Rat(100, 1), score)

\* The weight each task type applies to energy: its score for energy 1 and
\* productivity 0
EnergyWeights == calculateSuitabilityScores(Rat(1, 1), Rat(0, 1))

ProblemSolvingWeightsEnergyHighest ==
  \A w \in ScoresOf([suitabilityScores |-> EnergyWeights]) :
     RatGE(EnergyWeights.problemSolving, w)

-----------------------------------------------------------------------------
\* determineUserPersona applied to a given profile (specification SpecPersona)

\* Bound of the model
MaxPatterns == 2

\* A monthly pattern (the EnergyPattern type allows it; no function builds one)
MonthlyPattern ==
  [type |-> "monthly",
   pattern |-> <<[timeSlot |-> "week 1", averageEnergy |-> Rat(4, 1), confidence |-> Rat(1, 1)]>>,
   recommendations |-> <<>>]

MorningHistory == UniformHistory(MinDataPoints, 10, "high")
EveningHistory == UniformHistory(MinDataPoints, 20, "very-high")

\* A week of samples, one a day: at hour H1 with level L1 on the 4 odd days,
\* at hour H2 with level L2 on the 3 even days
TwoHourHistory(H1, L1, H2, L2) ==
  [i \in 1..MinDataPoints |->
     IF i % 2 = 1
     THEN DataPoint(i * OneDay + H1 * OneHour, L1, Undefined, Undefined, Some(TRUE))
     ELSE DataPoint(i * OneDay + H2 * OneHour + 30, L2, Undefined, Undefined, Some(TRUE))]

\* Histories whose morning and evening energies differ by exactly 0.5, a
\* history of early mornings (hour 7), and one of the hours after midnight
TwoHourHistories ==
  {TwoHourHistory(10, "high", 20, "low"), TwoHourHistory(10, "low", 20, "high"),
   TwoHourHistory(7, "very-high", 14, "medium"), TwoHourHistory(0, "very-high", 1, "high")}

PatternInputs ==
  {DailyPattern(MorningHistory), DailyPattern(EveningHistory),
   WeeklyPattern(MorningHistory), MonthlyPattern}
    \cup {DailyPattern(h) : h \in TwoHourHistories}

PersonaHistories == {<<>>, MorningHistory, EveningHistory} \cup TwoHourHistories

\* Profiles with up to MaxPatterns patterns of any types, in any order
PersonaProfiles ==
  {[currentEnergyLevel |-> level,
    energyHistory |-> hist,
    optimalStudyTimes |-> calculateOptimalStudyTimes(hist),
    energyPatterns |-> pats,
    lastUpdated |-> StartTime,
    adaptivePreferences |-> defaultAdaptivePreferences] :
     level \in EnergyLevels,
     hist \in PersonaHistories,
     pats \in UNION {[1..n -> PatternInputs] : n \in 0..MaxPatterns}}

InitPersona ==
  /\ now = StartTime
  /\ energyProfile \in PersonaProfiles
  /\ inputAfter = energyProfile
  /\ tasks = <<>>
  /\ renderTime = StartTime
  /\ smartSuggestions = <<>>
  /\ HarnessIdle
  /\ ProviderIdle

\* userPersona: determineUserPersona(energyProfile)
ClassifyPersona ==
  /\ pc = "input"
  /\ userPersona' = determineUserPersona(energyProfile)
  /\ pc' = "done"
  /\ UNCHANGED <<trackerVars, analyzeVars, recentFeedback, productivityMetrics, suggestions>>
  /\ UNCHANGED <<sessionVars, activityVars>>

NextPersona == ClassifyPersona

SpecPersona == InitPersona /\ [][NextPersona]_vars

NoDailyPattern ==
  \A i \in 1..Len(energyProfile.energyPatterns) : energyProfile.energyPatterns[i].type # "daily"

\* C4: whenever energyPatterns holds no pattern of type daily,
\* determineUserPersona returns type inconsistent with confidenceLevel
\* exactly 0.1, whatever the rest of the profile contains.
C4_NoDailyPatternIsInconsistent ==
  (pc = "done" /\ NoDailyPattern)
    => /\ userPersona.type = "inconsistent"
       /\ userPersona.confidenceLevel.num = 1
       /\ userPersona.confidenceLevel.den = 10

\* Witness of C4: a profile with a history and two patterns, none daily,
\* classified inconsistent
C4_Witness ==
  /\ pc = "done"
  /\ NoDailyPattern
  /\ Len(energyProfile.energyPatterns) = 2
  /\ energyProfile.energyHistory # <<>>
  /\ userPersona.type = "inconsistent"

\* The morning and evening energies determineUserPersona computes for the profile
MorningOfProfile == morningEnergy(FindDailyPattern(energyProfile.energyPatterns))
EveningOfProfile == eveningEnergy(FindDailyPattern(energyProfile.energyPatterns))

MorningAhead == RatGT(MorningOfProfile, RatAdd(EveningOfProfile, Rat(1, 2)))
EveningAhead == RatGT(EveningOfProfile, RatAdd(MorningOfProfile, Rat(1, 2)))

\* C16: when a daily pattern exists, determineUserPersona returns early-bird
\* with confidence 0.8 exactly when morningEnergy > eveningEnergy + 0.5,
\* night-owl with confidence 0.8 exactly when eveningEnergy > morningEnergy + 0.5,
\* flexible with confidence 0.7 otherwise, and never inconsistent.
C16_PersonaByMorningAndEvening ==
  (pc = "done" /\ ~NoDailyPattern) =>
    /\ userPersona.type = "early-bird" <=> MorningAhead
    /\ userPersona.type = "night-owl" <=> EveningAhead
    /\ userPersona.type = "flexible" <=> (~MorningAhead /\ ~EveningAhead)
    /\ userPersona.type \in {"early-bird", "night-owl"}
         => RatEQ(userPersona.confidenceLevel, Rat(8, 10))
    /\ userPersona.type = "flexible" => RatEQ(userPersona.confidenceLevel, Rat(7, 10))
    /\ userPersona.type # "inconsistent"

\* Witness of C16: the evening energy exceeds the morning energy by exactly
\* 0.5 and the persona is flexible
C16_Witness ==
  /\ pc = "done"
  /\ ~NoDailyPattern
  /\ RatEQ(EveningOfProfile, RatAdd(MorningOfProfile, Rat(1, 2)))
  /\ userPersona.type = "flexible"

\* The average energy of the profile's samples recorded in hour h
SamplesOfHour(h) ==
  {i \in 1..Len(energyProfile.energyHistory) :
     getHours(energyProfile.energyHistory[i].timestamp) = h}
AverageOfHour(h) ==
  Rat(Sum([i \in 1..Len(energyProfile.energyHistory) |->
             IF i \in SamplesOfHour(h)
             THEN energyLevelToNumber(energyProfile.energyHistory[i].energyLevel) ELSE 0]),
      Cardinality(SamplesOfHour(h)))

\* The sum of the average energies of the hours lo..hi that have samples
RECURSIVE AveragesOfHours(_, _)
AveragesOfHours(lo, hi) ==
  IF lo > hi THEN Rat(0, 1)
  ELSE IF SamplesOfHour(lo) = {} THEN AveragesOfHours(lo + 1, hi)
  ELSE RatAdd(AverageOfHour(lo), AveragesOfHours(lo + 1, hi))

\* The profile's first daily pattern is the one analyzePatternsFromHistory
\* produces from the profile's history
DailyPatternFromHistory ==
  /\ ~NoDailyPattern
  /\ Len(energyProfile.energyHistory) >= MinDataPoints
  /\ FindDailyPattern(energyProfile.energyPatterns) = DailyPattern(energyProfile.energyHistory)

\* C17: for a daily pattern produced by analyzePatternsFromHistory,
\* morningEnergy is the sum of averageEnergy over exactly the entries of hours
\* 6 through 10, divided by 4, and eveningEnergy the sum over exactly the
\* entries of hours 18 through 22, divided by 4.
C17_MorningAndEveningHours ==
  (pc = "done" /\ DailyPatternFromHistory) =>
    /\ RatEQ(RatScale(MorningOfProfile, 4), AveragesOfHours(6, 10))
    /\ RatEQ(RatScale(EveningOfProfile, 4), AveragesOfHours(18, 22))

-----------------------------------------------------------------------------
\* calculateProductivityMetrics applied to a given profile and feedback
\* (specification SpecMetrics)

\* Bounds of the model
MaxMetricsHistory == 3
MaxFeedback == 2

FeedbackInputs ==
  {[sessionId |-> "s1", focusRating |-> 1], [sessionId |-> "s2", focusRating |-> 5]}

MetricsProfiles ==
  {[initializeEnergyProfile(StartTime) EXCEPT !.energyHistory = hist] :
     hist \in UNION {[1..n -> SampleKinds] : n \in 0..MaxMetricsHistory}}

\* Bound of the model: the samples that precede the last RecentWindow
MaxEarlier == 2

\* A sample recorded hoursAgo hours before the start: high and completed, or
\* very-low and not completed
WindowSample(good, hoursAgo) ==
  IF good THEN DataPoint(StartTime - hoursAgo * OneHour, "high", Undefined, Some(8), Some(TRUE))
  ELSE DataPoint(StartTime - hoursAgo * OneHour, "very-low", Undefined, Undefined, Some(FALSE))

\* Hourly histories that end at the start time: earlier samples of any of the
\* two kinds, then RecentWindow samples of which the first k are good
WindowHistory(earlier, k) ==
  LET n == Len(earlier) + RecentWindow
  IN [i \in 1..n |->
        WindowSample(IF i <= Len(earlier) THEN earlier[i] ELSE i - Len(earlier) <= k, n - i)]

WindowProfiles ==
  {[initializeEnergyProfile(StartTime) EXCEPT !.energyHistory = WindowHistory(earlier, k)] :
     earlier \in UNION {[1..n -> BOOLEAN] : n \in 0..MaxEarlier}, k \in 0..RecentWindow}

InitMetrics ==
  /\ now = StartTime
  /\ energyProfile \in MetricsProfiles \cup WindowProfiles
  /\ inputAfter = energyProfile
  /\ tasks = <<>>
  /\ renderTime = StartTime
  /\ smartSuggestions = <<>>
  /\ history = <<>>
  /\ patterns = <<>>
  /\ timeSlots = <<>>
  /\ recentFeedback \in UNION {[1..n -> FeedbackInputs] : n \in 0..MaxFeedback}
  /\ userPersona = <<>>
  /\ productivityMetrics = <<>>
  /\ pc = "input"
  /\ ProviderIdle

AggregateMetrics ==
  /\ pc = "input"
  /\ productivityMetrics' = calculateProductivityMetrics(energyProfile, recentFeedback)
  /\ pc' = "done"
  /\ UNCHANGED <<trackerVars, analyzeVars, recentFeedback, userPersona, suggestions>>
  /\ UNCHANGED <<sessionVars, activityVars>>

NextMetrics == AggregateMetrics

SpecMetrics == InitMetrics /\ [][NextMetrics]_vars

\* C5: with an empty energy history and feedback of one entry with
\* focusRating 5, calculateProductivityMetrics returns focusScore = 100,
\* completionRate = 0 and consistencyScore = 0 (well-defined numbers, no NaN).
C5_EmptyHistoryMetrics ==
  (/\ pc = "done"
   /\ energyProfile.energyHistory = <<>>
   /\ Len(recentFeedback) = 1
   /\ recentFeedback[1].focusRating = 5)
    => /\ productivityMetrics.focusScore = Rat(100, 1)
       /\ productivityMetrics.completionRate = Rat(0, 1)
       /\ productivityMetrics.consistencyScore = Rat(0, 1)

\* The final 14 samples of a history (all of them if there are fewer)
FinalSamples(hist) ==
  LET n == IF Len(hist) < 14 THEN Len(hist) ELSE 14
  IN [i \in 1..n |-> hist[Len(hist) - n + i]]

\* The profiles of the model whose histories have the same final 14 samples
\* as the profile's history
SameRecentWindow ==
  {other \in MetricsProfiles \cup WindowProfiles :
     FinalSamples(other.energyHistory) = FinalSamples(energyProfile.energyHistory)}

-----------------------------------------------------------------------------
\* The suggestions state of the RealTimeContextProvider (specification
\* SpecProvider): addSuggestion, dismissSuggestion and the cleanup timer

\* newSuggestions.slice(0, 5)
MaxSuggestions == 5
\* Date.now() + 10 * 60 * 1000, in minutes
TenMinutes == 10

\* const priorityOrder = { critical: 4, high: 3, medium: 2, low: 1 }
priorityOrder(priority) ==
  CASE priority = "critical" -> 4
    [] priority = "high" -> 3
    [] priority = "medium" -> 2
    [] priority = "low" -> 1

\* Array.prototype.sort((a, b) => priorityOrder[b.priority] - priorityOrder[a.priority]):
\* a stable sort, done by inserting each element after those that are not lower
InsertByPriority(sorted, s) ==
  LET before == {i \in 1..Len(sorted) :
                   priorityOrder(sorted[i].priority) >= priorityOrder(s.priority)}
      k == Cardinality(before)
  IN SubSeq(sorted, 1, k) \o <<s>> \o SubSeq(sorted, k + 1, Len(sorted))

RECURSIVE SortByPriorityUpTo(_, _)
SortByPriorityUpTo(seq, n) ==
  IF n = 0 THEN <<>> ELSE InsertByPriority(SortByPriorityUpTo(seq, n - 1), seq[n])

\* Mutant of SortByPriority: the sort is missing
NoSort(seq) == seq

SortByPriority(seq) == SortByPriorityUpTo(seq, Len(seq))

\* Mutant of KeepTop: the slice is missing
KeepAll(seq) == seq

\* newSuggestions.slice(0, 5): the first 5
KeepTop(seq) == SubSeq(seq, 1, IF Len(seq) < MaxSuggestions THEN Len(seq) ELSE MaxSuggestions)

\* Mutant of addSuggestion: the duplicate check is missing
addSuggestionNoDedup(prev, suggestion) ==
  KeepTop(SortByPriority(Append(prev, suggestion)))

\* The updater addSuggestion gives to setSuggestions
addSuggestion(prev, suggestion) ==
  IF \E i \in 1..Len(prev) : prev[i].id = suggestion.id THEN prev
  ELSE KeepTop(SortByPriority(Append(prev, suggestion)))

\* prev.filter(s => s.id !== id)
dismissSuggestion(prev, id) == SelectSeq(prev, LAMBDA s : s.id # id)

\* Mutant of NotExpired: the expiry is not compared with the clock
NeverExpired(s, clock) == TRUE

\* !s.expiresAt || new Date(s.expiresAt) > now
NotExpired(s, clock) == s.expiresAt = Undefined \/ s.expiresAt[1] > clock

\* prev.filter(s => !s.expiresAt || new Date(s.expiresAt) > now)
cleanupExpired(prev, clock) == SelectSeq(prev, LAMBDA s : NotExpired(s, clock))

\* Bound of the model
MaxTick == 1

\* The instants at which something happens: the first minutes and 10 minutes
\* after the start
ProviderInstants == {StartTime + i : i \in 0..MaxTick} \cup {StartTime + TenMinutes}

\* The suggestions added at time clock: the provider's idle-suggest (low,
\* expiring after 10 minutes), break-suggest (medium) and idle-end (high),
\* and two of a caller of the context's addSuggestion that share an id (a
\* critical one and a low one); ids are `${prefix}-${Date.now()}`
SuggestionInputs(clock) ==
  {[id |-> <<"idle-suggest", clock>>, priority |-> "low", expiresAt |-> Some(clock + TenMinutes)],
   [id |-> <<"break-suggest", clock>>, priority |-> "medium", expiresAt |-> Undefined],
   [id |-> <<"idle-end", clock>>, priority |-> "high", expiresAt |-> Undefined],
   [id |-> <<"urgent", clock>>, priority |-> "critical", expiresAt |-> Undefined],
   [id |-> <<"urgent", clock>>, priority |-> "low", expiresAt |-> Undefined]}

SuggestionIds == UNION {{s.id : s \in SuggestionInputs(t)} : t \in ProviderInstants}

InitProvider ==
  /\ TrackerIdle
  /\ HarnessIdle
  /\ suggestions = <<>>
  /\ SessionIdle

ProviderAdvanceClock(t) ==
  /\ t > now
  /\ now' = t
  /\ pc' = "clock"
  /\ UNCHANGED <<energyProfile, inputAfter, tasks, renderTime, smartSuggestions>>
  /\ UNCHANGED <<analyzeVars, classifyVars, suggestions>>
  /\ UNCHANGED <<sessionVars, activityVars>>

AddSuggestion(s) ==
  /\ suggestions' = addSuggestion(suggestions, s)
  /\ pc' = "addSuggestion"
  /\ UNCHANGED <<trackerVars, analyzeVars, classifyVars>>
  /\ UNCHANGED <<sessionVars, activityVars>>

DismissSuggestion(id) ==
  /\ suggestions' = dismissSuggestion(suggestions, id)
  /\ pc' = "dismissSuggestion"
  /\ UNCHANGED <<trackerVars, analyzeVars, classifyVars>>
  /\ UNCHANGED <<sessionVars, activityVars>>

\* The cleanup interval fires
CleanupExpired ==
  /\ suggestions' = cleanupExpired(suggestions, now)
  /\ pc' = "cleanup"
  /\ UNCHANGED <<trackerVars, analyzeVars, classifyVars>>
  /\ UNCHANGED <<sessionVars, activityVars>>

NextProvider ==
  \/ \E t \in ProviderInstants : ProviderAdvanceClock(t)
  \/ \E s \in SuggestionInputs(now) : AddSuggestion(s)
  \/ \E id \in SuggestionIds : DismissSuggestion(id)
  \/ CleanupExpired

SpecProvider == InitProvider /\ [][NextProvider]_vars

\* The hooks of the suggestions the provider raises itself
OwnKinds == {"idle-suggest", "break-suggest", "idle-end"}

\* `${prefix}-${Date.now()}`, evaluated when the hook runs
HookId(s, clock) == <<s.id[1], clock>>

\* onDismiss: () => dismissSuggestion(`${prefix}-${Date.now()}`)
OnDismiss(i) ==
  /\ suggestions[i].id[1] \in OwnKinds
  /\ suggestions' = dismissSuggestion(suggestions, HookId(suggestions[i], now))
  /\ pc' = "onDismiss"
  /\ UNCHANGED <<trackerVars, analyzeVars, classifyVars, sessionVars, activityVars>>

\* onAccept: startSession() for idle-suggest, endSession() for break-suggest
\* and idle-end, then dismissSuggestion(`${prefix}-${Date.now()}`)
OnAccept(i) ==
  /\ suggestions[i].id[1] \in OwnKinds
  /\ IF suggestions[i].id[1] = "idle-suggest"
       THEN /\ isInSession' = TRUE
            /\ sessionDuration' = 0
            /\ ticks' = 0
            /\ lastActivity' = now
            /\ isUserActive' = TRUE
            /\ idleTime' = 0
       ELSE /\ isInSession' = FALSE
            /\ sessionDuration' = 0
            /\ UNCHANGED <<ticks, lastActivity, isUserActive, idleTime>>
  /\ suggestions' = dismissSuggestion(suggestions, HookId(suggestions[i], now))
  /\ pc' = "onAccept"
  /\ UNCHANGED <<trackerVars, analyzeVars, classifyVars, sessionInterval, userPresence>>

NextHooks ==
  \/ \E t \in ProviderInstants : ProviderAdvanceClock(t)
  \/ \E s \in SuggestionInputs(now) : AddSuggestion(s)
  \/ \E i \in 1..Len(suggestions) : OnDismiss(i)
  \/ \E i \in 1..Len(suggestions) : OnAccept(i)
  \/ CleanupExpired

SpecHooks == InitProvider /\ [][NextHooks]_vars

\* The provider with a cleanup timer that keeps firing and a clock that keeps
\* advancing
SpecCleanup ==
  /\ InitProvider
  /\ [][NextProvider]_vars
  /\ WF_vars(CleanupExpired)
  /\ WF_vars(\E t \in ProviderInstants : ProviderAdvanceClock(t))

\* C10: in every state reachable by addSuggestion, dismissSuggestion and
\* expiry-cleanup steps, the suggestions list holds at most 5 suggestions.
C10_AtMostFiveSuggestions == Len(suggestions) <= 5

\* Witness of C10: a full list holding high and critical suggestions only,
\* which takes adds at all three instants
C10_Witness ==
  /\ Len(suggestions) = 5
  /\ \A i \in 1..5 : suggestions[i].priority \in {"high", "critical"}

\* The suggestions of [...prev, suggestion] that the updater's result does not hold
Dropped(prev, suggestion) ==
  LET all == Append(prev, suggestion)
      result == addSuggestion(prev, suggestion)
  IN {all[i] : i \in 1..Len(all)} \ {result[i] : i \in 1..Len(result)}

\* The list is ordered by non-increasing priority
SortedByPriority(seq) ==
  \A i \in 1..Len(seq) : \A j \in i..Len(seq) :
     priorityOrder(seq[i].priority) >= priorityOrder(seq[j].priority)

\* C11: in every reachable state the suggestions list is ordered by
\* non-increasing priority (critical > high > medium > low), and whatever
\* suggestion is added next, a suggestion the cap of 5 drops never has a
\* higher priority than one that is kept.
C11_SortedByPriority ==
  /\ SortedByPriority(suggestions)
  /\ \A s \in SuggestionInputs(now) :
       (\A i \in 1..Len(suggestions) : suggestions[i].id # s.id)
         => \A d \in Dropped(suggestions, s) :
              \A i \in 1..Len(addSuggestion(suggestions, s)) :
                 priorityOrder(d.priority)
                   <= priorityOrder(addSuggestion(suggestions, s)[i].priority)

\* Witness of C11: a full list that mixes priorities, with a low one last,
\* so that adding a new critical suggestion drops a suggestion
C11_Witness ==
  /\ Len(suggestions) = 5
  /\ suggestions[1].priority = "critical"
  /\ suggestions[3].priority = "medium"
  /\ suggestions[5].priority = "low"
  /\ \E s \in SuggestionInputs(now) :
       /\ s.priority = "critical"
       /\ \A i \in 1..5 : suggestions[i].id # s.id
       /\ Dropped(suggestions, s) = {suggestions[5]}

\* The ids of a list
IdsOf(seq) == {seq[i].id : i \in 1..Len(seq)}

\* C12: addSuggestion deduplicates by id: adding a suggestion whose id is
\* already in the list leaves the list unchanged, adding a suggestion twice
\* equals adding it once, and no reachable list holds two suggestions with
\* the same id.
C12_DeduplicatesById ==
  /\ \A i, j \in 1..Len(suggestions) :
       suggestions[i].id = suggestions[j].id => i = j
  /\ \A s \in SuggestionInputs(now) :
       /\ s.id \in IdsOf(suggestions) => addSuggestion(suggestions, s) = suggestions
       /\ addSuggestion(addSuggestion(suggestions, s), s) = addSuggestion(suggestions, s)

\* Witness of C12: the list holds a suggestion whose id is also the id of a
\* different suggestion that can be added now
C12_Witness ==
  \E i \in 1..Len(suggestions) : \E s \in SuggestionInputs(now) :
     /\ suggestions[i].id = s.id
     /\ suggestions[i] # s
     /\ Len(suggestions) >= 2

-----------------------------------------------------------------------------
\* A caller that records samples over weeks (specification SpecRecord):
\* initializeEnergyProfile, then recordEnergyData calls, each some time after
\* the one before

\* Bound of the model
MaxCalls == 8

\* The longest time between two calls: the sample before the gap turns exactly
\* 30 days old when MinDataPoints - 1 hourly samples follow the gap
LongGap == ThirtyDays - (MinDataPoints - 1) * OneHour

RecordGaps == {OneHour, LongGap}

\* What the caller passes: a high level with a completed session, or a low
\* level with a session that was not completed
RecordInputs ==
  {[energyLevel |-> "high", sessionCompleted |-> Some(TRUE)],
   [energyLevel |-> "low", sessionCompleted |-> Some(FALSE)]}

InitRecord ==
  /\ now = StartTime
  /\ energyProfile = initializeEnergyProfile(StartTime)
  /\ inputAfter = initializeEnergyProfile(StartTime)
  /\ tasks = <<>>
  /\ renderTime = StartTime
  /\ smartSuggestions = <<>>
  /\ HarnessIdle
  /\ ProviderIdle

\* gap after the call before, recordEnergyData(energyProfile, level, undefined,
\* undefined, sessionCompleted) is called and its result becomes the profile
RecordEnergyData(input, gap) ==
  /\ Len(history) < MaxCalls
  /\ now' = now + gap
  /\ energyProfile' = recordEnergyData(energyProfile, input.energyLevel, Undefined,
                                       Undefined, input.sessionCompleted, now')
  /\ inputAfter' = currentProfileAfterCall(energyProfile, input.energyLevel, Undefined,
                                           Undefined, input.sessionCompleted, now')
  /\ history' = Append(history, DataPoint(now', input.energyLevel, Undefined,
                                          Undefined, input.sessionCompleted))
  /\ UNCHANGED <<tasks, renderTime, smartSuggestions, patterns, timeSlots>>
  /\ UNCHANGED <<classifyVars, suggestions, pc>>
  /\ UNCHANGED <<sessionVars, activityVars>>

NextRecord == \E input \in RecordInputs : \E gap \in RecordGaps : RecordEnergyData(input, gap)

SpecRecord == InitRecord /\ [][NextRecord]_vars

\* C13: after any sequence of recordEnergyData calls that starts from
\* initializeEnergyProfile, energyPatterns is analyzePatternsFromHistory(energyHistory),
\* optimalStudyTimes is calculateOptimalStudyTimes(energyHistory), and
\* currentEnergyLevel is the level passed to the most recent call.
C13_DerivedFieldsConsistent ==
  /\ energyProfile.energyPatterns = analyzePatternsFromHistory(energyProfile.energyHistory)
  /\ energyProfile.optimalStudyTimes = calculateOptimalStudyTimes(energyProfile.energyHistory)
  /\ history # <<>> => energyProfile.currentEnergyLevel = history[Len(history)].energyLevel

\* Witness of C13: a call has pruned the first sample and left at least 7,
\* so that there are patterns and an optimal window
C13_Witness ==
  /\ Len(history) > Len(energyProfile.energyHistory)
  /\ Len(energyProfile.energyHistory) >= MinDataPoints
  /\ energyProfile.energyPatterns # <<>>
  /\ energyProfile.optimalStudyTimes # <<>>
  /\ energyProfile.currentEnergyLevel = "low"

-----------------------------------------------------------------------------
\* generateSmartSuggestions applied to a profile that recordEnergyData has
\* built (specification SpecSuggest)

\* Bound of the model: the samples recorded today
MaxToday == 5

\* The time of the call: 09:30 or 10:00 of the start day
SuggestInstants == {StartTime + 30, StartTime + OneHour}

\* The samples of today, by age at the call (in minutes) and level: an hour
\* old or more recent
TodayKinds ==
  {[age |-> 60, energyLevel |-> "low"], [age |-> 60, energyLevel |-> "high"],
   [age |-> 59, energyLevel |-> "very-high"], [age |-> 59, energyLevel |-> "very-low"],
   [age |-> 1, energyLevel |-> "low"],
   [age |-> 0, energyLevel |-> "very-low"], [age |-> 0, energyLevel |-> "high"]}

\* Samples are appended as they are recorded: ages do not increase
TodaySequences ==
  UNION {{k \in [1..n -> TodayKinds] : \A i \in 1..n : \A j \in i..n : k[i].age >= k[j].age}
           : n \in 0..MaxToday}

TodayHistory(kinds, clock) ==
  [i \in 1..Len(kinds) |->
     DataPoint(clock - kinds[i].age, kinds[i].energyLevel, Undefined, Undefined, Some(TRUE))]

\* The samples of the days before: none, or a week of high, completed samples
\* at hour 8 or at hour 9
EarlierHistories ==
  {<<>>} \cup {UniformHistory(MinDataPoints, H, "high") : H \in {8, 9}}

\* The profile recordEnergyData leaves for a history
ProfileOf(hist, clock) ==
  [initializeEnergyProfile(StartTime) EXCEPT
     !.currentEnergyLevel = IF hist = <<>> THEN "medium" ELSE hist[Len(hist)].energyLevel,
     !.energyHistory = hist,
     !.lastUpdated = IF hist = <<>> THEN StartTime ELSE hist[Len(hist)].timestamp,
     !.energyPatterns = analyzePatternsFromHistory(hist),
     !.optimalStudyTimes = calculateOptimalStudyTimes(hist)]

InitSuggest ==
  /\ now \in SuggestInstants
  /\ \E earlier \in EarlierHistories : \E kinds \in TodaySequences :
       energyProfile = ProfileOf(earlier \o TodayHistory(kinds, now), now)
  /\ inputAfter = energyProfile
  /\ tasks \in TaskLists
  /\ renderTime = now
  /\ smartSuggestions = <<>>
  /\ HarnessIdle
  /\ ProviderIdle

\* generateSmartSuggestions(userExperience, tasks, studyPlans), with
\* currentContext.currentTime = new Date()
Suggest ==
  /\ pc = "input"
  /\ smartSuggestions' = generateSmartSuggestions(energyProfile, now, tasks, now)
  /\ pc' = "done"
  /\ UNCHANGED <<now, energyProfile, inputAfter, tasks, renderTime>>
  /\ UNCHANGED <<analyzeVars, classifyVars, suggestions>>
  /\ UNCHANGED <<sessionVars, activityVars>>

NextSuggest == Suggest

SpecSuggest == InitSuggest /\ [][NextSuggest]_vars

\* The rule a suggestion comes from, by the prefix of its id
RuleOf(s) ==
  CASE s.id[1] = "energy-low" -> 1
    [] s.id[1] = "energy-high" -> 2
    [] s.id[1] = "optimal-time" -> 3
    [] s.id[1] = "break-suggestion" -> 4

\* The rules that have a suggestion in the returned list
RulesReturned == {RuleOf(smartSuggestions[i]) : i \in 1..Len(smartSuggestions)}

\* The samples of the profile recorded within the 60 minutes before the call
SamplesOfLastHour ==
  {i \in 1..Len(energyProfile.energyHistory) :
     now - energyProfile.energyHistory[i].timestamp < OneHour}

\* The conditions of the four rules, read off the profile, the tasks and the clock
LowEnergyHolds == energyProfile.currentEnergyLevel \in {"very-low", "low"}
HighEnergyHolds ==
  /\ energyProfile.currentEnergyLevel \in {"high", "very-high"}
  /\ \E i \in 1..Len(tasks) :
       /\ tasks[i].status # "completed"
       /\ tasks[i].taskType \in {"problem-solving", "creative"}
OptimalTimeHolds ==
  \E i \in 1..Len(energyProfile.optimalStudyTimes) :
     getHours(now) \in energyProfile.optimalStudyTimes[i].startHour
                        ..(energyProfile.optimalStudyTimes[i].endHour - 1)
BreakHolds ==
  /\ Cardinality(SamplesOfLastHour) >= 4
  /\ \A i \in SamplesOfLastHour : energyProfile.energyHistory[i].energyLevel # "low"

\* C14: the four rules are evaluated independently with no early exit: the
\* returned list holds the suggestion of a rule exactly when the rule's
\* condition holds, in rule order (low-energy, challenging-task, optimal-time,
\* break), and never has more than 3 entries.
C14_RulesIndependentInOrder ==
  pc = "done" =>
    /\ (1 \in RulesReturned) <=> LowEnergyHolds
    /\ (2 \in RulesReturned) <=> HighEnergyHolds
    /\ (3 \in RulesReturned) <=> OptimalTimeHolds
    /\ (4 \in RulesReturned) <=> BreakHolds
    /\ \A i \in 1..Len(smartSuggestions) : \A j \in (i + 1)..Len(smartSuggestions) :
          RuleOf(smartSuggestions[i]) < RuleOf(smartSuggestions[j])
    /\ Len(smartSuggestions) <= 3

\* Witness of C14: three rules apply at once (challenging-task,
\* optimal-time and break) and the list holds their three suggestions
C14_Witness ==
  /\ pc = "done"
  /\ HighEnergyHolds /\ OptimalTimeHolds /\ BreakHolds
  /\ Len(smartSuggestions) = 3

\* C15: the medium-priority break suggestion is returned exactly when at
\* least 4 history samples lie within the last 60 minutes and none of those
\* has level 'low'; 'very-low' samples do not suppress it.
C15_BreakSuggestion ==
  pc = "done" =>
    ((\E i \in 1..Len(smartSuggestions) :
         /\ smartSuggestions[i].id[1] = "break-suggestion"
         /\ smartSuggestions[i].priority = "medium")
       <=> (/\ Cardinality(SamplesOfLastHour) >= 4
            /\ ~\E i \in SamplesOfLastHour :
                  energyProfile.energyHistory[i].energyLevel = "low"))

\* Witness of C15: 4 very-low samples within the last 60 minutes, an older
\* low one, and the break suggestion is returned
C15_Witness ==
  /\ pc = "done"
  /\ Cardinality({i \in SamplesOfLastHour :
                    energyProfile.energyHistory[i].energyLevel = "very-low"}) = 4
  /\ \E i \in 1..Len(energyProfile.energyHistory) :
       /\ i \notin SamplesOfLastHour
       /\ energyProfile.energyHistory[i].energyLevel = "low"
  /\ \E i \in 1..Len(smartSuggestions) : smartSuggestions[i].id[1] = "break-suggestion"

-----------------------------------------------------------------------------
\* A user of the EnergyTracker widget over days (specification SpecWidget):
\* initializeEnergyProfile, then energy updates through handleEnergyUpdate,
\* each some time after the one before

\* Bound of the model
MaxUpdates == 8

\* The time between two updates
WidgetGaps == {1, OneHour}

\* The buttons the user presses in this model
WidgetLevels == {"high", "low"}

InitWidget ==
  /\ now = StartTime
  /\ energyProfile = initializeEnergyProfile(StartTime)
  /\ inputAfter = initializeEnergyProfile(StartTime)
  /\ tasks = <<>>
  /\ renderTime = StartTime
  /\ smartSuggestions = RenderSuggestions(energyProfile, tasks, now)
  /\ HarnessIdle
  /\ ProviderIdle

\* gap after the update before: handleEnergyUpdate(level), that is
\* recordEnergyData(energyProfile, level, context, undefined, false) with the
\* context of the moment, onEnergyUpdate(updatedProfile), and the render that
\* the new prop causes
WidgetEnergyUpdate(level, gap) ==
  /\ Len(history) < MaxUpdates
  /\ now' = now + gap
  /\ energyProfile' = recordEnergyData(energyProfile, level, TrackerContext(now'),
                                       Undefined, Some(FALSE), now')
  /\ inputAfter' = currentProfileAfterCall(energyProfile, level, TrackerContext(now'),
                                           Undefined, Some(FALSE), now')
  /\ history' = Append(history, DataPoint(now', level, TrackerContext(now'),
                                          Undefined, Some(FALSE)))
  /\ renderTime' = now'
  /\ smartSuggestions' = RenderSuggestions(energyProfile', tasks, now')
  /\ UNCHANGED <<tasks, patterns, timeSlots>>
  /\ UNCHANGED <<classifyVars, suggestions, pc>>
  /\ UNCHANGED <<sessionVars, activityVars>>

NextWidget == \E level \in WidgetLevels : \E gap \in WidgetGaps : WidgetEnergyUpdate(level, gap)

SpecWidget == InitWidget /\ [][NextWidget]_vars

\* Some hour holds at least MinDataPoints samples of the profile, of average
\* energy at least MinAvgEnergy
HourWithGoodEnergy ==
  \E h \in 0..23 :
    /\ Cardinality(SamplesOfHour(h)) >= MinDataPoints
    /\ RatGE(AverageOfHour(h), Rat(MinAvgEnergy, 1))

\* C25: a profile built through the widget's energy updates holds a non-empty
\* optimalStudyTimes once it has at least 7 samples of average energy >= 3 in
\* some hour.
C25_WidgetProfileGetsOptimalTimes ==
  HourWithGoodEnergy => energyProfile.optimalStudyTimes # <<>>

\* What the widget's profile holds instead: no optimal study time, and no
\* optimal-time suggestion, whatever the samples
WidgetNeverGetsOptimalTimes ==
  /\ energyProfile.optimalStudyTimes = <<>>
  /\ \A i \in 1..Len(smartSuggestions) : smartSuggestions[i].id[1] # "optimal-time"

-----------------------------------------------------------------------------
\* Sessions and presence in the RealTimeContextProvider (specification
\* SpecSession): recordActivity, startSession, endSession, the effect that sets
\* and clears the session timer, the timer's tick, and the idle check

\* Bound of the model: the ticks of one session
MaxSessionTicks == 3

\* if (idleMinutes > 5) ... else if (idleMinutes > 15)
IdleThreshold == 5
AwayThreshold == 15

\* The instants at which something happens: the start, and the minutes around
\* the two thresholds
SessionInstants ==
  {StartTime + d : d \in {0, IdleThreshold, IdleThreshold + 1, AwayThreshold, AwayThreshold + 1}}

InitSession ==
  /\ TrackerIdle
  /\ HarnessIdle
  /\ ProviderIdle

SessionAdvanceClock(t) ==
  /\ t > now
  /\ now' = t
  /\ pc' = "input"
  /\ UNCHANGED <<energyProfile, inputAfter, tasks, renderTime, smartSuggestions>>
  /\ UNCHANGED <<analyzeVars, classifyVars, suggestions, sessionVars, activityVars>>

\* recordActivity(): setLastActivity(Date.now()), setIsUserActive(true), setIdleTime(0)
RecordActivity ==
  /\ lastActivity' = now
  /\ isUserActive' = TRUE
  /\ idleTime' = 0
  /\ pc' = "input"
  /\ UNCHANGED <<trackerVars, analyzeVars, classifyVars, suggestions, sessionVars, userPresence>>

\* startSession(): setIsInSession(true), setSessionDuration(0), recordActivity()
StartSession ==
  /\ isInSession' = TRUE
  /\ sessionDuration' = 0
  /\ ticks' = 0
  /\ lastActivity' = now
  /\ isUserActive' = TRUE
  /\ idleTime' = 0
  /\ pc' = "input"
  /\ UNCHANGED <<trackerVars, analyzeVars, classifyVars, suggestions, sessionInterval, userPresence>>

\* endSession(): setIsInSession(false), setSessionDuration(0)
EndSession ==
  /\ isInSession' = FALSE
  /\ sessionDuration' = 0
  /\ pc' = "input"
  /\ UNCHANGED <<trackerVars, analyzeVars, classifyVars, suggestions, sessionInterval, ticks,
                 activityVars>>

\* useEffect(..., [isInSession]): after a render in which isInSession has
\* changed, the cleanup clears the interval and the effect sets one if
\* isInSession
SessionEffect ==
  /\ sessionInterval # isInSession
  /\ sessionInterval' = isInSession
  /\ pc' = "input"
  /\ UNCHANGED <<trackerVars, analyzeVars, classifyVars, suggestions, isInSession,
                 sessionDuration, ticks, activityVars>>

\* The interval's callback: setSessionDuration(prev => prev + 1)
SessionTimerTick ==
  /\ sessionInterval
  /\ sessionDuration < MaxSessionTicks
  /\ ticks < MaxSessionTicks
  /\ sessionDuration' = sessionDuration + 1
  /\ ticks' = ticks + 1
  /\ pc' = "input"
  /\ UNCHANGED <<trackerVars, analyzeVars, classifyVars, suggestions, isInSession,
                 sessionInterval, activityVars>>

\* Math.floor(timeSinceActivity / 60000), the clock counting minutes
idleMinutes(clock, activity) == clock - activity

\* if (idleMinutes > 5) 'idle' else if (idleMinutes > 15) 'away' else 'active'
presenceFor(minutes) ==
  IF minutes > IdleThreshold THEN "idle"
  ELSE IF minutes > AwayThreshold THEN "away"
  ELSE "active"

\* The idle interval's callback
IdleCheck ==
  /\ idleTime' = idleMinutes(now, lastActivity)
  /\ isUserActive' = IF idleMinutes(now, lastActivity) > IdleThreshold THEN FALSE ELSE isUserActive
  /\ userPresence' = presenceFor(idleMinutes(now, lastActivity))
  /\ pc' = "idleCheck"
  /\ UNCHANGED <<trackerVars, analyzeVars, classifyVars, suggestions, sessionVars, lastActivity>>

NextSession ==
  \/ \E t \in SessionInstants : SessionAdvanceClock(t)
  \/ RecordActivity
  \/ StartSession
  \/ EndSession
  \/ SessionEffect
  \/ SessionTimerTick
  \/ IdleCheck

SpecSession == InitSession /\ [][NextSession]_vars

\* C21: in every state reachable by startSession, endSession and the session
\* timer's ticks, sessionDuration is 0 whenever no session is in progress, and
\* equals the number of ticks since the most recent startSession while a
\* session is in progress.
C21_SessionDurationCountsTicks ==
  /\ ~isInSession => sessionDuration = 0
  /\ isInSession => sessionDuration = ticks

\* C23: the idle check sets userPresence from the whole minutes since the
\* last activity: active for at most 5, idle for more than 5 and at most 15,
\* away for more than 15.
C23_PresenceByIdleMinutes ==
  pc = "idleCheck" =>
    /\ now - lastActivity <= 5 => userPresence = "active"
    /\ (now - lastActivity > 5 /\ now - lastActivity <= 15) => userPresence = "idle"
    /\ now - lastActivity > 15 => userPresence = "away"

-----------------------------------------------------------------------------
\* Properties of the tracker (specification Spec)

\* A recordEnergyData call has been made: its data point is always retained
Recorded == energyProfile.energyHistory # <<>>

\* The time of the last recordEnergyData call and of the one before it (or
\* of initializeEnergyProfile)
LastCallTime == energyProfile.lastUpdated
PreviousCallTime == inputAfter.lastUpdated

NewestSample == energyProfile.energyHistory[Len(energyProfile.energyHistory)]

\* C1: after any sequence of recordEnergyData calls at non-decreasing clock
\* times, no sample of the profile's energyHistory is more than 30 days older
\* than the last call; and a call made 31 days or more after the previous one
\* leaves only the newest sample.
C1_NoSampleOlderThanThirtyDays ==
  /\ \A i \in 1..Len(energyProfile.energyHistory) :
       LastCallTime - energyProfile.energyHistory[i].timestamp <= ThirtyDays
  /\ (Recorded /\ LastCallTime - PreviousCallTime >= ThirtyOneDays)
       => /\ Len(energyProfile.energyHistory) = 1
          /\ NewestSample.timestamp = LastCallTime

\* Witness of C1: samples were recorded, the clock advanced by 31 days and
\* one more was recorded
C1_Witness ==
  /\ Len(inputAfter.energyHistory) >= 2
  /\ LastCallTime - PreviousCallTime >= ThirtyOneDays
  /\ Len(energyProfile.energyHistory) = 1

\* The samples of the history whose timestamps lie in the 60 minutes before
\* the last render
RecentAtRender ==
  {i \in 1..Len(energyProfile.energyHistory) :
     renderTime - energyProfile.energyHistory[i].timestamp < OneHour}

VeryLowNoTasksNoWindows ==
  /\ energyProfile.currentEnergyLevel = "very-low"
  /\ tasks = <<>>
  /\ energyProfile.optimalStudyTimes = <<>>

IsLowEnergySuggestion(s) == s.id[1] = "energy-low" /\ s.priority = "high"
IsBreakSuggestion(s) == s.id[1] = "break-suggestion" /\ s.priority = "medium"

\* C7 as stated: with level very-low, no tasks and no optimal study times,
\* generateSmartSuggestions returns exactly one suggestion, the low-energy
\* one with priority high, whatever the energy history.
C7_OnlyLowEnergySuggestion ==
  VeryLowNoTasksNoWindows
    => Len(smartSuggestions) = 1 /\ IsLowEnergySuggestion(smartSuggestions[1])

\* C7 amended: with level very-low, no tasks and no optimal study times, the
\* low-energy suggestion (priority high) comes first; it is the only one
\* unless at least 4 samples lie within the last 60 minutes and none of them
\* is low, and then the break suggestion follows it.
C7_LowEnergyThenMaybeBreak ==
  VeryLowNoTasksNoWindows
    => /\ Len(smartSuggestions) >= 1
       /\ IsLowEnergySuggestion(smartSuggestions[1])
       /\ IF /\ Cardinality(RecentAtRender) >= 4
             /\ \A i \in RecentAtRender : energyProfile.energyHistory[i].energyLevel # "low"
          THEN Len(smartSuggestions) = 2 /\ IsBreakSuggestion(smartSuggestions[2])
          ELSE Len(smartSuggestions) = 1

\* Witness of C7: very-low, no tasks, no windows, four recent very-low
\* samples and the break suggestion after the low-energy one
C7_Witness ==
  /\ VeryLowNoTasksNoWindows
  /\ Cardinality(RecentAtRender) >= 4
  /\ \A i \in RecentAtRender : energyProfile.energyHistory[i].energyLevel = "very-low"
  /\ Len(smartSuggestions) = 2

\* C8: recordEnergyData leaves its input unchanged: in every step that
\* returns a new profile, the object passed in holds after the call exactly
\* what it held before, and the result is another value.
C8_InputUnchanged ==
  [][energyProfile' # energyProfile
       => inputAfter' = energyProfile /\ energyProfile' # inputAfter']_vars

\* Witness of C8: a call on a profile with samples returned a longer history
\* and the profile passed in still holds its samples
C8_Witness ==
  /\ Len(inputAfter.energyHistory) >= 1
  /\ Len(energyProfile.energyHistory) = Len(inputAfter.energyHistory) + 1

\* The samples of the input history that the last call retained, by age
RetainedYoungerThanThirtyDays ==
  SelectSeq(inputAfter.energyHistory,
            LAMBDA point : LastCallTime - point.timestamp < ThirtyDays)

\* C9 as stated: a sample whose timestamp is exactly 30 days before the
\* call's current time is retained in the returned history.
C9_ExactlyThirtyDaysRetained ==
  Recorded =>
    \A i \in 1..Len(inputAfter.energyHistory) :
      inputAfter.energyHistory[i].timestamp = LastCallTime - ThirtyDays
        => \E j \in 1..Len(energyProfile.energyHistory) :
             energyProfile.energyHistory[j] = inputAfter.energyHistory[i]

\* C9 amended: pruning removes the samples that are 30 days old or older: a
\* sample exactly 30 days before the call's time is removed, and every
\* sample less than 30 days old is retained, in order, before the new one.
C9_ThirtyDaysOrOlderRemoved ==
  Recorded =>
    /\ NewestSample.timestamp = LastCallTime
    /\ energyProfile.energyHistory = Append(RetainedYoungerThanThirtyDays, NewestSample)
    /\ \A j \in 1..Len(energyProfile.energyHistory) :
         energyProfile.energyHistory[j].timestamp # LastCallTime - ThirtyDays

\* Witness of C9: the input held a sample exactly 30 days old and a younger
\* one; only the younger one was retained
C9_Witness ==
  /\ \E i \in 1..Len(inputAfter.energyHistory) :
       inputAfter.energyHistory[i].timestamp = LastCallTime - ThirtyDays
  /\ \E i \in 1..Len(inputAfter.energyHistory) :
       inputAfter.energyHistory[i].timestamp = LastCallTime - ThirtyDays + 1
  /\ Len(energyProfile.energyHistory) = 2

-----------------------------------------------------------------------------
\* Properties of the suggestions' hooks (specification SpecHooks)

\* C22: for every suggestion the provider raises itself, invoking its
\* onDismiss or onAccept hook removes that same suggestion from the list.
C22_HookRemovesItsSuggestion ==
  [][\A i \in 1..Len(suggestions) :
       (OnDismiss(i) \/ OnAccept(i)) => suggestions[i].id \notin IdsOf(suggestions')]_vars

-----------------------------------------------------------------------------
\* Properties of the cleanup of expired suggestions (specification SpecCleanup)

\* The suggestions that carry an expiresAt
ExpiringSuggestions ==
  {s \in UNION {SuggestionInputs(t) : t \in ProviderInstants} : s.expiresAt # Undefined}

InList(s) == \E i \in 1..Len(suggestions) : suggestions[i] = s

\* A step of the cleanup keeps what has no expiresAt or expires later
CleanupKeepsUnexpired ==
  CleanupExpired =>
    \A i \in 1..Len(suggestions) :
      (suggestions[i].expiresAt = Undefined \/ suggestions[i].expiresAt[1] > now)
        => \E j \in 1..Len(suggestions') : suggestions'[j] = suggestions[i]

\* C24: under a cleanup timer that keeps firing and a clock that keeps
\* advancing, a suggestion in the list whose expiresAt has passed is
\* eventually absent from the list, and a cleanup step never removes a
\* suggestion that has no expiresAt or whose expiresAt is in the future.
C24_ExpiredEventuallyRemoved ==
  /\ [][CleanupKeepsUnexpired]_vars
  /\ \A s \in ExpiringSuggestions :
       (InList(s) /\ s.expiresAt[1] <= now) ~> ~InList(s)

\* After a cleanup at the expiry of the first idle-suggest, that suggestion
\* is gone, and a later idle-suggest and a break-suggest are still listed
C24_Witness ==
  /\ pc = "cleanup"
  /\ now = StartTime + TenMinutes
  /\ ~InList([id |-> <<"idle-suggest", StartTime>>, priority |-> "low",
              expiresAt |-> Some(StartTime + TenMinutes)])
  /\ InList([id |-> <<"idle-suggest", StartTime + 1>>, priority |-> "low",
             expiresAt |-> Some(StartTime + 1 + TenMinutes)])
  /\ InList([id |-> <<"break-suggest", StartTime>>, priority |-> "medium",
             expiresAt |-> Undefined])

====
